---------------------------- MODULE Spec2Model ----------------------------
(***************************************************************************)
(* Model of contrib_observer.go (package jaeger): the composite observer   *)
(* that fans a span's start out to the registered ContribObservers, the    *)
(* composite span observer that fans a span's later events out to the      *)
(* span observers collected at start, and the oldObserver adapter.         *)
(*                                                                         *)
(* Every method is modelled at the granularity of its calls into observer  *)
(* code: one step enters the method, one step per loop iteration calls the *)
(* next observer, one step returns.  A panic of an observer unwinds the    *)
(* method at the iteration where it happens (nothing in the file recovers).*)
(***************************************************************************)
EXTENDS Integers, Sequences, FiniteSets, TLC

(* ------------------------------ bounds --------------------------------- *)
\* most observers ever registered with the tracer
MaxObservers == 3
\* most spans ever started
MaxSpans == 2
\* most method calls on sets recorded in a behaviour that records them
MaxCalls == 3

(* ------------------------------ inputs --------------------------------- *)
Threads == {"t1"}
OperationNames == {"foo", "bar"}
StartOptions == {"so1", "so2"}
TagKeys == {"k"}
TagValues == {"v"}
FinishOptions == {"fo1"}

\* The observers an application can register.  kind "native" implements
\* ContribObserver itself; kind "old" is an Observer of observer.go, which
\* reaches the composite only wrapped in an oldObserver.
\*   X     native, interested only in operation name "foo"
\*   H     native, always interested; its span observers may panic
\*   P     native, panics when asked
\*   R     native, always interested; when asked it registers X with the
\*         composite that is asking it (while the model's bound allows)
\*   D     native, never interested, but answers with a span observer
\*   L     old observer, returns a span observer; registered wrapped, as
\*         oldObserver(L)
\*   N     old observer, returns nil; registered wrapped, as oldObserver(N)
\* The observers registered in the behaviours of Spec
Pool == {"X", "H", "P", "oldObserver(L)"}
\* The observers registered in the behaviours of SpecReentrant
ReentrantPool == {"X", "R", "oldObserver(L)"}
\* The observers registered in the behaviours of SpecNil
NilPool == {"X", "D", "oldObserver(N)"}

\* a nil ContribSpanObserver
NilSpanObserver == [by |-> "nil", sp |-> 0, at |-> 0]

\* A span observer is a fresh object each time an observer creates one: it is
\* named by the observer that made it, the span it was made for and the
\* position of the query that made it.
NewSpanObserver(by, sp, at) == [by |-> by, sp |-> sp, at |-> at]

(* ------------------------------ slices --------------------------------- *)
\* var s []T
NilSlice == [isnil |-> TRUE, elems |-> <<>>, cap |-> 0]

\* make([]T, 0): no capacity asked for
MakeSlice_NoCap(n) == [isnil |-> FALSE, elems |-> <<>>, cap |-> 0]

\* make([]T, 0, n)
MakeSlice(n) == [isnil |-> FALSE, elems |-> <<>>, cap |-> n]

\* append(s, x): in place while the capacity lasts, otherwise into a larger
\* array
AppendSlice(s, x) ==
    [isnil |-> FALSE,
     elems |-> Append(s.elems, x),
     cap   |-> IF Len(s.elems) < s.cap THEN s.cap
               ELSE IF s.cap = 0 THEN 1 ELSE 2 * s.cap]

(* ------------------------------- state --------------------------------- *)
VARIABLES
    observers,   \* compositeObserver.observers
    heap,        \* the compositeSpanObserver objects, by address
    started,     \* number of spans started so far
    frame,       \* per thread: the method it is in, or was last in
    appended,    \* history: the arguments of the calls of append, in order
    trace        \* history, kept where trace.on: the method calls made on
                 \* the sets and the calls the span observers received

vars == <<observers, heap, started, frame, appended, trace>>

\* address of the object noopCompositeSpanObserver points to
noopCompositeSpanObserver == 1

NoFrame ==
    [call |-> "none", pc |-> "idle", sp |-> 0, operationName |-> "",
     options |-> "", recv |-> 0, args |-> <<>>, rng |-> <<>>, i |-> 0,
     spanObservers |-> NilSlice, before |-> <<>>, queried |-> <<>>,
     hooks |-> <<>>, delivered |-> <<>>, ret |-> 0]

Init ==
    /\ observers = <<>>
    /\ heap = <<[observers |-> NilSlice]>>
    /\ started = 0
    /\ frame = [t \in Threads |-> NoFrame]
    /\ appended = <<>>
    /\ trace = [on |-> FALSE, calls |-> <<>>, received |-> <<>>]

Running(t) == frame[t].pc = "loop"
InOnStartSpan(t) == Running(t) /\ frame[t].call = "OnStartSpan"

(* ------------------------- observer behaviour -------------------------- *)
\* Observer.OnStartSpan of the old observer obs (observer.go): it is given
\* no span and returns a span observer unconditionally.
Observer_OnStartSpan(obs, operationName, options, sp, at) ==
    IF obs = "N" THEN NilSpanObserver ELSE NewSpanObserver(obs, sp, at)

\* oldObserver.OnStartSpan reporting no interest
oldObserver_OnStartSpan_NotOk(obs, sp, operationName, options, at) ==
    [spanObs |-> Observer_OnStartSpan(obs, operationName, options, sp, at),
     ok      |-> FALSE,
     panics  |-> FALSE,
     registers |-> <<>>,
     hooks   |-> <<[obs |-> obs, operationName |-> operationName,
                    options |-> options, at |-> at,
                    ret |-> Observer_OnStartSpan(obs, operationName,
                                                 options, sp, at)]>>]

\* oldObserver.OnStartSpan
oldObserver_OnStartSpan(obs, sp, operationName, options, at) ==
    [spanObs |-> Observer_OnStartSpan(obs, operationName, options, sp, at),
     ok      |-> TRUE,
     panics  |-> FALSE,
     registers |-> <<>>,
     hooks   |-> <<[obs |-> obs, operationName |-> operationName,
                    options |-> options, at |-> at,
                    ret |-> Observer_OnStartSpan(obs, operationName,
                                                 options, sp, at)]>>]

\* ContribObserver.OnStartSpan of a registered observer
ContribObserver_OnStartSpan(c, sp, operationName, options, at) ==
    CASE c = "oldObserver(L)" ->
            oldObserver_OnStartSpan("L", sp, operationName, options, at)
      [] c = "oldObserver(N)" ->
            oldObserver_OnStartSpan("N", sp, operationName, options, at)
      [] c = "D" ->
            [spanObs |-> NewSpanObserver("D", sp, at), ok |-> FALSE,
             panics |-> FALSE, registers |-> <<>>, hooks |-> <<>>]
      [] c = "X" ->
            IF operationName = "foo"
            THEN [spanObs |-> NewSpanObserver("X", sp, at), ok |-> TRUE,
                  panics |-> FALSE, registers |-> <<>>, hooks |-> <<>>]
            ELSE [spanObs |-> NilSpanObserver, ok |-> FALSE,
                  panics |-> FALSE, registers |-> <<>>, hooks |-> <<>>]
      [] c = "H" ->
            [spanObs |-> NewSpanObserver("H", sp, at), ok |-> TRUE,
             panics |-> FALSE, registers |-> <<>>, hooks |-> <<>>]
      [] c = "R" ->
            [spanObs |-> NewSpanObserver("R", sp, at), ok |-> TRUE,
             panics |-> FALSE, registers |-> <<"X">>, hooks |-> <<>>]
      [] c = "P" ->
            [spanObs |-> NilSpanObserver, ok |-> FALSE,
             panics |-> TRUE, registers |-> <<>>, hooks |-> <<>>]

\* What a call of a ContribSpanObserver method can do: return, or panic.
\* A method call on a nil interface value panics.
SpanObserverOutcomes(h) ==
    IF h = NilSpanObserver THEN {"panic"}
    ELSE IF h.by = "H" THEN {"return", "panic"}
    ELSE {"return"}

(* --------------------------- compositeObserver ------------------------- *)
\* append that leaves out an observer already registered
compositeObserver_append_Dedup(obsSeq, contribObserver) ==
    IF \E j \in 1..Len(obsSeq) : obsSeq[j] = contribObserver
    THEN obsSeq
    ELSE Append(obsSeq, contribObserver)

\* compositeObserver.append
compositeObserver_append(obsSeq, contribObserver) ==
    Append(obsSeq, contribObserver)

\* the calls of o.append an observer's OnStartSpan makes when it means to
\* register `registers` and o.observers is obsSeq
AppendCalls(obsSeq, registers) ==
    IF registers # <<>> /\ Len(obsSeq) < MaxObservers
    THEN <<registers[1]>>
    ELSE <<>>

\* o.observers after an observer's OnStartSpan called o.append for each of
\* `registers`
AfterQuery(obsSeq, registers) ==
    IF registers # <<>> /\ Len(obsSeq) < MaxObservers
    THEN compositeObserver_append(obsSeq, registers[1])
    ELSE obsSeq

Register(c) ==
    /\ Len(observers) < MaxObservers
    /\ \A t \in Threads : ~InOnStartSpan(t)
    /\ observers' = compositeObserver_append(observers, c)
    /\ appended' = Append(appended, c)
    /\ UNCHANGED <<heap, started, frame, trace>>

\* the loop body putting the newest span observer first
Collect_Prepend(spanObservers, spanObs, ok, n) ==
    IF ok
    THEN [isnil |-> FALSE, elems |-> <<spanObs>> \o spanObservers.elems,
          cap |-> n]
    ELSE spanObservers

\* the loop body without the test of ok
Collect_IgnoreOk(spanObservers, spanObs, ok, n) ==
    AppendSlice(IF spanObservers.isnil THEN MakeSlice(n) ELSE spanObservers,
                spanObs)

\* the loop body leaving out a nil span observer
Collect_SkipNil(spanObservers, spanObs, ok, n) ==
    IF ok /\ spanObs # NilSpanObserver
    THEN AppendSlice(IF spanObservers.isnil THEN MakeSlice(n)
                     ELSE spanObservers,
                     spanObs)
    ELSE spanObservers

\* the loop body after the observer
\* answered (spanObs, ok); n is len(o.observers)
Collect(spanObservers, spanObs, ok, n) ==
    IF ok
    THEN AppendSlice(IF spanObservers.isnil THEN MakeSlice(n)
                     ELSE spanObservers,
                     spanObs)
    ELSE spanObservers

\* the end of OnStartSpan without the test for an empty collection
Result_AlwaysNew(h, spanObservers) ==
    [heap |-> Append(h, [observers |-> spanObservers]), ret |-> Len(h) + 1]

\* the end of OnStartSpan reusing the object built last
Result_Reuse(h, spanObservers) ==
    IF Len(spanObservers.elems) = 0
    THEN [heap |-> h, ret |-> 1]
    ELSE IF Len(h) > 1
    THEN [heap |-> [h EXCEPT ![Len(h)] = [observers |-> spanObservers]],
          ret  |-> Len(h)]
    ELSE [heap |-> Append(h, [observers |-> spanObservers]),
          ret  |-> Len(h) + 1]

\* the end of OnStartSpan filling the shared object instead of a new one
Result_IntoNoop(h, spanObservers) ==
    [heap |-> [h EXCEPT ![1] = [observers |-> spanObservers]], ret |-> 1]

\* the end of compositeObserver.OnStartSpan: the heap after it and the
\* address returned
Result(h, spanObservers) ==
    IF Len(spanObservers.elems) = 0
    THEN [heap |-> h, ret |-> noopCompositeSpanObserver]
    ELSE [heap |-> Append(h, [observers |-> spanObservers]),
          ret  |-> Len(h) + 1]

\* the frame with a recover around the observer's call: a panic counts as
\* an answer of not interested
Asked_Recover(f, obs, r, n) ==
    LET q == [obs |-> obs, sp |-> f.sp, operationName |-> f.operationName,
              options |-> f.options, ok |-> r.ok, spanObs |-> r.spanObs,
              panics |-> r.panics, n |-> n]
    IN  [f EXCEPT !.i = f.i + 1,
                  !.queried = Append(f.queried, q),
                  !.hooks = f.hooks \o r.hooks,
                  !.spanObservers = Collect(f.spanObservers, r.spanObs,
                                            r.ok, n)]

\* the loop body leaving the loop at the first interested observer
Asked_ShortCircuit(f, obs, r, n) ==
    LET q == [obs |-> obs, sp |-> f.sp, operationName |-> f.operationName,
              options |-> f.options, ok |-> r.ok, spanObs |-> r.spanObs,
              panics |-> r.panics, n |-> n]
    IN  IF r.panics
        THEN [f EXCEPT !.pc = "panicked", !.queried = Append(f.queried, q)]
        ELSE [f EXCEPT !.i = IF r.ok THEN Len(f.rng) + 1 ELSE f.i + 1,
                       !.queried = Append(f.queried, q),
                       !.hooks = f.hooks \o r.hooks,
                       !.spanObservers = Collect(f.spanObservers, r.spanObs,
                                                 r.ok, n)]

\* the loop body ranging over o.observers as it is now, not as it was when
\* the loop began
Asked_LiveRange(f, obs, r, n) ==
    LET q == [obs |-> obs, sp |-> f.sp, operationName |-> f.operationName,
              options |-> f.options, ok |-> r.ok, spanObs |-> r.spanObs,
              panics |-> r.panics, n |-> n]
    IN  IF r.panics
        THEN [f EXCEPT !.pc = "panicked", !.queried = Append(f.queried, q)]
        ELSE [f EXCEPT !.i = f.i + 1,
                       !.rng = AfterQuery(f.rng, r.registers),
                       !.queried = Append(f.queried, q),
                       !.hooks = f.hooks \o r.hooks,
                       !.spanObservers = Collect(f.spanObservers, r.spanObs,
                                                 r.ok, n)]

\* the frame of OnStartSpan after observer obs = f.rng[f.i] was asked and
\* did r; n is len(o.observers) once it has
Asked(f, obs, r, n) ==
    LET q == [obs |-> obs, sp |-> f.sp, operationName |-> f.operationName,
              options |-> f.options, ok |-> r.ok, spanObs |-> r.spanObs,
              panics |-> r.panics, n |-> n]
    IN  IF r.panics
        THEN [f EXCEPT !.pc = "panicked", !.queried = Append(f.queried, q)]
        ELSE [f EXCEPT !.i = f.i + 1,
                       !.queried = Append(f.queried, q),
                       !.hooks = f.hooks \o r.hooks,
                       !.spanObservers = Collect(f.spanObservers, r.spanObs,
                                                 r.ok, n)]

OnStartSpan(t, operationName, options) ==
    /\ ~Running(t)
    /\ started < MaxSpans
    /\ started' = started + 1
    /\ frame' = [frame EXCEPT ![t] =
            [NoFrame EXCEPT !.call = "OnStartSpan", !.pc = "loop",
                            !.sp = started + 1,
                            !.operationName = operationName,
                            !.options = options,
                            !.rng = observers, !.i = 1,
                            !.before = observers]]
    /\ UNCHANGED <<observers, heap, appended, trace>>

OnStartSpanQuery(t) ==
    LET f == frame[t]
    IN  /\ InOnStartSpan(t)
        /\ f.i <= Len(f.rng)
        /\ LET obs == f.rng[f.i]
               r == ContribObserver_OnStartSpan(obs, f.sp, f.operationName,
                                                f.options, f.i)
               after == IF r.panics THEN observers
                        ELSE AfterQuery(observers, r.registers)
           IN  /\ observers' = after
               /\ appended' = IF r.panics THEN appended
                               ELSE appended \o
                                    AppendCalls(observers, r.registers)
               /\ frame' = [frame EXCEPT ![t] = Asked(f, obs, r, Len(after))]
        /\ UNCHANGED <<heap, started, trace>>

OnStartSpanReturn(t) ==
    LET f == frame[t]
        r == Result(heap, f.spanObservers)
    IN  /\ InOnStartSpan(t)
        /\ f.i > Len(f.rng)
        /\ heap' = r.heap
        /\ frame' = [frame EXCEPT ![t] =
                        [f EXCEPT !.pc = "returned", !.ret = r.ret]]
        /\ UNCHANGED <<observers, started, appended, trace>>

(* ------------------------ compositeSpanObserver ------------------------ *)
\* a set that forwards nothing once OnFinish was called on it, and forwards
\* a call equal to the one before it only once
Enter_Lifecycle(o, method, args) ==
    LET mine == SelectSeq(trace.calls, LAMBDA c : c.recv = o)
        skip == /\ trace.on
                /\ mine # <<>>
                /\ \/ \E k \in 1..Len(mine) : mine[k].method = "OnFinish"
                   \/ mine[Len(mine)] = [recv |-> o, method |-> method,
                                         args |-> args]
    IN  [NoFrame EXCEPT !.call = method, !.pc = "loop", !.recv = o,
                        !.args = args,
                        !.rng = IF skip THEN <<>>
                                ELSE heap[o].observers.elems,
                        !.i = 1]

\* the frame of a method of the compositeSpanObserver at address o as its
\* loop begins: `for _, obs := range o.observers`
Enter(o, method, args) ==
    [NoFrame EXCEPT !.call = method, !.pc = "loop", !.recv = o,
                    !.args = args, !.rng = heap[o].observers.elems,
                    !.i = 1]

\* whether the history has room for one more method call
CanRecord == ~trace.on \/ Len(trace.calls) < MaxCalls

\* the history after `method` was called on the set at address o
Recorded(o, method, args) ==
    IF trace.on
    THEN [trace EXCEPT !.calls = Append(@, [recv |-> o, method |-> method,
                                            args |-> args])]
    ELSE trace

\* the history after the call that made the frame g: the call is the last
\* one of g.delivered
Received(g) ==
    IF trace.on
    THEN [trace EXCEPT !.received =
                           Append(@, g.delivered[Len(g.delivered)])]
    ELSE trace

\* the loop body with a recover around the member's call
Called_Recover(f, method, out) ==
    [f EXCEPT !.delivered = Append(f.delivered,
                                   [to |-> f.rng[f.i], method |-> method,
                                    args |-> f.args, out |-> out]),
              !.i = f.i + 1]

\* the frame after the loop body called `method` on member f.rng[f.i] and
\* the call ended as `out`
Called(f, method, out) ==
    [f EXCEPT !.delivered = Append(f.delivered,
                                   [to |-> f.rng[f.i], method |-> method,
                                    args |-> f.args, out |-> out]),
              !.i = IF out = "return" THEN f.i + 1 ELSE f.i,
              !.pc = IF out = "return" THEN "loop" ELSE "panicked"]

\* the frame after the method returned
Returned(f) == [f EXCEPT !.pc = "returned"]

OnSetOperationName(t, o, operationName) ==
    /\ ~Running(t)
    /\ CanRecord
    /\ frame' = [frame EXCEPT ![t] =
                    Enter(o, "OnSetOperationName", <<operationName>>)]
    /\ trace' = Recorded(o, "OnSetOperationName", <<operationName>>)
    /\ UNCHANGED <<observers, heap, started, appended>>

OnSetOperationNameLoop(t) ==
    /\ Running(t)
    /\ frame[t].call = "OnSetOperationName"
    /\ frame[t].i <= Len(frame[t].rng)
    /\ \E out \in SpanObserverOutcomes(frame[t].rng[frame[t].i]) :
          /\ frame' = [frame EXCEPT ![t] =
                          Called(frame[t], "OnSetOperationName", out)]
          /\ trace' = Received(Called(frame[t], "OnSetOperationName", out))
    /\ UNCHANGED <<observers, heap, started, appended>>

OnSetTag(t, o, key, value) ==
    /\ ~Running(t)
    /\ CanRecord
    /\ frame' = [frame EXCEPT ![t] = Enter(o, "OnSetTag", <<key, value>>)]
    /\ trace' = Recorded(o, "OnSetTag", <<key, value>>)
    /\ UNCHANGED <<observers, heap, started, appended>>

\* the loop of OnSetTag calling OnFinish on the members
OnSetTagLoop_WrongMethod(t) ==
    /\ Running(t)
    /\ frame[t].call = "OnSetTag"
    /\ frame[t].i <= Len(frame[t].rng)
    /\ \E out \in SpanObserverOutcomes(frame[t].rng[frame[t].i]) :
          /\ frame' = [frame EXCEPT ![t] =
                          Called(frame[t], "OnFinish", out)]
          /\ trace' = Received(Called(frame[t], "OnFinish", out))
    /\ UNCHANGED <<observers, heap, started, appended>>

OnSetTagLoop(t) ==
    /\ Running(t)
    /\ frame[t].call = "OnSetTag"
    /\ frame[t].i <= Len(frame[t].rng)
    /\ \E out \in SpanObserverOutcomes(frame[t].rng[frame[t].i]) :
          /\ frame' = [frame EXCEPT ![t] =
                          Called(frame[t], "OnSetTag", out)]
          /\ trace' = Received(Called(frame[t], "OnSetTag", out))
    /\ UNCHANGED <<observers, heap, started, appended>>

OnFinish(t, o, options) ==
    /\ ~Running(t)
    /\ CanRecord
    /\ frame' = [frame EXCEPT ![t] = Enter(o, "OnFinish", <<options>>)]
    /\ trace' = Recorded(o, "OnFinish", <<options>>)
    /\ UNCHANGED <<observers, heap, started, appended>>

OnFinishLoop(t) ==
    /\ Running(t)
    /\ frame[t].call = "OnFinish"
    /\ frame[t].i <= Len(frame[t].rng)
    /\ \E out \in SpanObserverOutcomes(frame[t].rng[frame[t].i]) :
          /\ frame' = [frame EXCEPT ![t] =
                          Called(frame[t], "OnFinish", out)]
          /\ trace' = Received(Called(frame[t], "OnFinish", out))
    /\ UNCHANGED <<observers, heap, started, appended>>

\* the end of any of the three methods: the range is exhausted
Return(t) ==
    /\ Running(t)
    /\ frame[t].call \in {"OnSetOperationName", "OnSetTag", "OnFinish"}
    /\ frame[t].i > Len(frame[t].rng)
    /\ frame' = [frame EXCEPT ![t] = Returned(frame[t])]
    /\ UNCHANGED <<observers, heap, started, appended, trace>>

(* ---------------------------- specification ---------------------------- *)
\* the steps of the goroutines T
DispatchBy(T) ==
    \/ \E t \in T, n \in OperationNames, so \in StartOptions :
           OnStartSpan(t, n, so)
    \/ \E t \in T : OnStartSpanQuery(t)
    \/ \E t \in T : OnStartSpanReturn(t)
    \/ \E t \in T, o \in DOMAIN heap, n \in OperationNames :
           OnSetOperationName(t, o, n)
    \/ \E t \in T : OnSetOperationNameLoop(t)
    \/ \E t \in T, o \in DOMAIN heap, k \in TagKeys, v \in TagValues :
           OnSetTag(t, o, k, v)
    \/ \E t \in T : OnSetTagLoop(t)
    \/ \E t \in T, o \in DOMAIN heap, fo \in FinishOptions :
           OnFinish(t, o, fo)
    \/ \E t \in T : OnFinishLoop(t)
    \/ \E t \in T : Return(t)

Dispatch == DispatchBy(Threads)

Next ==
    \/ \E c \in Pool : Register(c)
    \/ Dispatch

Spec == Init /\ [][Next]_vars

NextReentrant ==
    \/ \E c \in ReentrantPool : Register(c)
    \/ Dispatch

SpecReentrant == Init /\ [][NextReentrant]_vars

NextNil ==
    \/ \E c \in NilPool : Register(c)
    \/ Dispatch

SpecNil == Init /\ [][NextNil]_vars

\* Registration is over and two goroutines start spans and call the
\* methods of the sets concurrently.
ConcThreads == {"t1", "t2"}
ConcPool == {"X", "oldObserver(L)"}
ConcRegistries == {<<>>, <<"X">>, <<"X", "oldObserver(L)">>}

InitConc ==
    /\ observers \in ConcRegistries
    /\ appended = observers
    /\ heap = <<[observers |-> NilSlice]>>
    /\ started = 0
    /\ frame = [t \in ConcThreads |-> NoFrame]
    /\ trace = [on |-> FALSE, calls |-> <<>>, received |-> <<>>]

NextConc == DispatchBy(ConcThreads)

SpecConc == InitConc /\ [][NextConc]_vars

\* Registration is over, no span observer panics, and the method calls made
\* on the sets and the calls their members receive are recorded.
RepeatRegistries == {<<"X", "oldObserver(L)">>}

InitRepeat ==
    /\ observers \in RepeatRegistries
    /\ appended = observers
    /\ heap = <<[observers |-> NilSlice]>>
    /\ started = 0
    /\ frame = [t \in Threads |-> NoFrame]
    /\ trace = [on |-> TRUE, calls |-> <<>>, received |-> <<>>]

\* the steps of one goroutine, with one value of each argument that no
\* method looks at
NextRepeat ==
    \/ \E n \in OperationNames : OnStartSpan("t1", n, "so1")
    \/ OnStartSpanQuery("t1")
    \/ OnStartSpanReturn("t1")
    \/ \E o \in DOMAIN heap : OnSetOperationName("t1", o, "bar")
    \/ OnSetOperationNameLoop("t1")
    \/ \E o \in DOMAIN heap : OnSetTag("t1", o, "k", "v")
    \/ OnSetTagLoop("t1")
    \/ \E o \in DOMAIN heap : OnFinish("t1", o, "fo1")
    \/ OnFinishLoop("t1")
    \/ Return("t1")

SpecRepeat == InitRepeat /\ [][NextRepeat]_vars

(* ------------------------------- claims -------------------------------- *)
StartFrame(t) == frame[t].call = "OnStartSpan"
NotifyFrame(t) ==
    frame[t].call \in {"OnSetOperationName", "OnSetTag", "OnFinish"}
ReturnedStart(t) == StartFrame(t) /\ frame[t].pc = "returned"
Members(a) == heap[a].observers.elems
IsInterested(q) == q.ok
\* the span observers the interested observers answered with, in the order
\* in which the observers were asked
Answers(t) == SelectSeq(frame[t].queried, IsInterested)

\* C1: when OnStartSpan returns, every one of the N observers registered as
\* the call began was asked, in registration order, and the returned set has
\* exactly as many members as observers answered ok (K), member j being the
\* span observer the j-th of those answered with.
C1_MembersAreTheInterestedInOrder ==
    \A t \in Threads :
        ReturnedStart(t) =>
            LET f == frame[t]
                m == Members(f.ret)
            IN  /\ Len(f.queried) = Len(f.before)
                /\ \A j \in 1..Len(f.before) : f.queried[j].obs = f.before[j]
                /\ Len(m) = Len(Answers(t))
                /\ Len(m) <= Len(f.before)
                /\ \A j \in 1..Len(m) : m[j] = Answers(t)[j].spanObs

\* three registered, the first not interested, the other two interested
C1_Witness ==
    \E t \in Threads :
        /\ ReturnedStart(t)
        /\ Len(frame[t].before) = 3
        /\ ~frame[t].queried[1].ok
        /\ Len(Members(frame[t].ret)) = 2
        /\ Members(frame[t].ret)[1] # Members(frame[t].ret)[2]

\* C2: when no observer answers ok (none registered included), OnStartSpan
\* returns the address of the one shared noopCompositeSpanObserver, and no
\* other compositeSpanObserver object is ever empty.
C2_NoopIsShared ==
    /\ \A t \in Threads :
          (ReturnedStart(t) /\ Answers(t) = <<>>) =>
              frame[t].ret = noopCompositeSpanObserver
    /\ \A a \in DOMAIN heap :
          a # noopCompositeSpanObserver => Members(a) # <<>>

\* the second span gets the shared object from registered, uninterested
\* observers, after the first span got a set of its own
C2_Witness ==
    \E t \in Threads :
        /\ ReturnedStart(t)
        /\ frame[t].sp = 2
        /\ Len(frame[t].before) >= 1
        /\ frame[t].ret = noopCompositeSpanObserver
        /\ Len(heap) = 2

\* what a method of the set at address a delivers to its first n members
Expected(a, method, args, n) ==
    [j \in 1..n |-> [to |-> Members(a)[j], method |-> method,
                     args |-> args, out |-> "return"]]

\* C3: a method of a set with M members that returns has called the same
\* method, with the arguments it was given, once on each member in member
\* order; while it runs it has done so for the members before the current
\* one.
C3_FanOutInOrder ==
    \A t \in Threads :
        NotifyFrame(t) =>
            LET f == frame[t]
            IN  /\ f.pc = "returned" =>
                      f.delivered = Expected(f.recv, f.call, f.args,
                                             Len(Members(f.recv)))
                /\ f.pc = "loop" =>
                      /\ f.i <= Len(Members(f.recv)) + 1
                      /\ f.delivered = Expected(f.recv, f.call, f.args,
                                                f.i - 1)

C3_Witness ==
    \E t \in Threads :
        /\ frame[t].call = "OnSetTag"
        /\ frame[t].pc = "returned"
        /\ frame[t].args = <<"k", "v">>
        /\ Len(Members(frame[t].recv)) = 3
        /\ Len(frame[t].delivered) = 3

\* the calls of the wrapped old observer made by query j of a frame
HookCalls(f, j) == SelectSeq(f.hooks, LAMBDA h : h.at = j)

\* C4: every query of an oldObserver answers ok, calls the wrapped
\* observer's OnStartSpan exactly once, with the operation name and options
\* of the query, and answers with the span observer that call returned.
C4_OldObserverAlwaysInterested ==
    \A t \in Threads :
        StartFrame(t) =>
            \A j \in 1..Len(frame[t].queried) :
                LET f == frame[t]
                    q == f.queried[j]
                IN  q.obs = "oldObserver(L)" =>
                        /\ q.ok
                        /\ ~q.panics
                        /\ Len(HookCalls(f, j)) = 1
                        /\ HookCalls(f, j)[1].obs = "L"
                        /\ HookCalls(f, j)[1].operationName = f.operationName
                        /\ HookCalls(f, j)[1].options = f.options
                        /\ q.spanObs = HookCalls(f, j)[1].ret
                        /\ q.spanObs # NilSpanObserver

C4_Witness ==
    \E t \in Threads :
        /\ ReturnedStart(t)
        /\ frame[t].operationName = "bar"
        /\ frame[t].options = "so2"
        /\ frame[t].sp = 2
        /\ frame[t].before = <<"oldObserver(L)", "X", "oldObserver(L)">>
        /\ Len(frame[t].hooks) = 2

\* C5: the shared noopCompositeSpanObserver never has a member, and a method
\* called on it calls no span observer and does not panic.
C5_NoopIsInert ==
    /\ Members(noopCompositeSpanObserver) = <<>>
    /\ \A t \in Threads :
          (NotifyFrame(t) /\ frame[t].recv = noopCompositeSpanObserver) =>
              /\ frame[t].rng = <<>>
              /\ frame[t].delivered = <<>>
              /\ frame[t].pc # "panicked"

\* a method returned from the shared object after sets with members were
\* built and observers are registered
C5_Witness ==
    \E t \in Threads :
        /\ frame[t].call = "OnFinish"
        /\ frame[t].pc = "returned"
        /\ frame[t].recv = noopCompositeSpanObserver
        /\ Len(heap) = 3
        /\ Len(observers) = 3

\* C6: with X registered first and the wrapped old observer L second, the
\* set OnStartSpan returns ends with the span observer L returned, preceded
\* by X's exactly when the operation name is one X is interested in; and
\* OnFinish on a set [X's, L's] calls X's OnFinish first, L's second.
C6_NativeThenLegacy ==
    /\ \A t \in Threads :
          (ReturnedStart(t) /\ frame[t].before = <<"X", "oldObserver(L)">>) =>
              LET f == frame[t]
                  x == NewSpanObserver("X", f.sp, 1)
                  l == NewSpanObserver("L", f.sp, 2)
              IN  /\ f.queried[2].spanObs = l
                  /\ f.hooks[1].ret = l
                  /\ f.operationName = "foo" =>
                        /\ f.queried[1].spanObs = x
                        /\ Members(f.ret) = <<x, l>>
                  /\ f.operationName # "foo" => Members(f.ret) = <<l>>
    /\ \A t \in Threads :
          (/\ frame[t].call = "OnFinish"
           /\ Len(Members(frame[t].recv)) = 2
           /\ Members(frame[t].recv)[1].by = "X"
           /\ Members(frame[t].recv)[2].by = "L") =>
              LET f == frame[t]
              IN  /\ f.pc # "panicked"
                  /\ Len(f.delivered) <= 2
                  /\ \A j \in 1..Len(f.delivered) :
                        /\ f.delivered[j].to = Members(f.recv)[j]
                        /\ f.delivered[j].method = "OnFinish"
                  /\ f.pc = "returned" => Len(f.delivered) = 2

\* span 1 ("foo") got [X's, L's], span 2 ("bar") got [L's] alone, and
\* OnFinish on span 1's set has returned
C6_Witness ==
    \E t \in Threads :
        /\ observers = <<"X", "oldObserver(L)">>
        /\ Len(heap) = 3
        /\ Members(2) = <<NewSpanObserver("X", 1, 1), NewSpanObserver("L", 1, 2)>>
        /\ Members(3) = <<NewSpanObserver("L", 2, 2)>>
        /\ frame[t].call = "OnFinish"
        /\ frame[t].recv = 2
        /\ frame[t].pc = "returned"
        /\ frame[t].delivered[1].to.by = "X"
        /\ frame[t].delivered[2].to.by = "L"

\* the position of the first ok answer of a frame that has one
FirstOk(f) ==
    CHOOSE j \in 1..Len(f.queried) :
        /\ f.queried[j].ok
        /\ \A k \in 1..(j - 1) : ~f.queried[k].ok

\* C7 as claimed: the storage of a new set is made with capacity K, the
\* number of span observers collected.
C7_PreSizedToCollectedCount ==
    \A t \in Threads :
        (ReturnedStart(t) /\ Answers(t) # <<>>) =>
            heap[frame[t].ret].observers.cap = Len(Answers(t))

\* C7 amended: the storage is made once, when the first interested observer
\* has answered, with capacity len(o.observers) as it is then: the number N
\* of observers registered as the call began, or more if observers were
\* registered during the call.  It holds the K collected span observers and
\* is never regrown.
C7_PreSizedToRegisteredCount ==
    \A t \in Threads :
        StartFrame(t) =>
            LET f == frame[t]
                s == f.spanObservers
            IN  /\ s.isnil <=> Answers(t) = <<>>
                /\ ~s.isnil =>
                      /\ s.cap = f.queried[FirstOk(f)].n
                      /\ s.cap >= Len(f.before)
                      /\ f.queried[FirstOk(f)].n = Len(f.before) =>
                            s.cap = Len(f.before)
                      /\ Len(s.elems) = Len(Answers(t))
                      /\ Len(s.elems) <= s.cap
                /\ (f.pc = "returned" /\ ~s.isnil) =>
                      heap[f.ret].observers = s

\* one collected of three registered, the last one asked: capacity three
C7_Witness ==
    \E t \in Threads :
        /\ ReturnedStart(t)
        /\ Len(frame[t].before) = 3
        /\ ~frame[t].queried[1].ok
        /\ ~frame[t].queried[2].ok
        /\ Len(Members(frame[t].ret)) = 1
        /\ heap[frame[t].ret].observers.cap = 3

\* C8: a member's panic ends the method at that member: the members before
\* it were called once each, in order, the later ones not at all, the panic
\* is the method's outcome (never followed by a further call or a return),
\* the set keeps its members, and the next method called on the thread
\* starts again at the first member of all the members of its set.
C8_PanicAbortsFanOut ==
    /\ [](\A t \in Threads :
            NotifyFrame(t) =>
                LET f == frame[t]
                    m == Members(f.recv)
                IN  /\ \A j \in 1..Len(f.delivered) :
                          f.delivered[j].out = "panic" =>
                              j = Len(f.delivered) /\ f.pc = "panicked"
                    /\ f.pc = "panicked" =>
                          /\ f.i \in 1..Len(m)
                          /\ Len(f.delivered) = f.i
                          /\ SubSeq(f.delivered, 1, f.i - 1) =
                                 Expected(f.recv, f.call, f.args, f.i - 1)
                          /\ f.delivered[f.i] =
                                 [to |-> m[f.i], method |-> f.call,
                                  args |-> f.args, out |-> "panic"]
                          /\ f.rng = m)
    /\ [][\A t \in Threads :
            (NotifyFrame(t) /\ frame[t].pc = "panicked") =>
                /\ heap'[frame[t].recv] = heap[frame[t].recv]
                /\ (frame'[t] # frame[t] /\ NotifyFrame(t)') =>
                      /\ frame'[t].pc = "loop"
                      /\ frame'[t].i = 1
                      /\ frame'[t].delivered = <<>>
                      /\ frame'[t].rng = Members(frame'[t].recv)]_vars

\* the second of three members panicked
C8_Witness ==
    \E t \in Threads :
        /\ NotifyFrame(t)
        /\ frame[t].pc = "panicked"
        /\ Len(Members(frame[t].recv)) = 3
        /\ frame[t].i = 2
        /\ frame[t].delivered[1].out = "return"

\* C9: an observer's panic ends OnStartSpan at that observer: the observers
\* before it were asked once each, in order, the later ones not at all, the
\* panic is the call's outcome, nothing is returned, no set was built for
\* the span, and o.observers and the heap are as they were.
C9_PanicAbortsStart ==
    /\ [](\A t \in Threads :
            StartFrame(t) =>
                LET f == frame[t]
                IN  /\ \A j \in 1..Len(f.queried) :
                          f.queried[j].panics =>
                              j = Len(f.queried) /\ f.pc = "panicked"
                    /\ f.pc = "panicked" =>
                          /\ f.i \in 1..Len(f.before)
                          /\ Len(f.queried) = f.i
                          /\ \A j \in 1..f.i : f.queried[j].obs = f.before[j]
                          /\ f.queried[f.i].panics
                          /\ f.ret = 0
                          /\ \A a \in DOMAIN heap :
                                \A j \in 1..Len(Members(a)) :
                                    Members(a)[j].sp # f.sp)
    /\ [][\A t \in Threads :
            (StartFrame(t)' /\ frame'[t].pc = "panicked"
                            /\ frame[t].pc = "loop") =>
                /\ observers' = observers
                /\ observers' = frame'[t].before
                /\ heap' = heap]_vars

\* the third of three observers panicked after an interested one answered
C9_Witness ==
    \E t \in Threads :
        /\ StartFrame(t)
        /\ frame[t].pc = "panicked"
        /\ frame[t].i = 3
        /\ frame[t].queried[2].ok
        /\ Len(frame[t].spanObservers.elems) >= 1

\* C10: no step changes a compositeSpanObserver that exists: not a
\* registration, not an OnStartSpan, not a method of this or another set.
C10_SetsNeverChange ==
    [][\A a \in DOMAIN heap :
          a \in DOMAIN heap' /\ heap'[a] = heap[a]]_vars

\* the first span's set has one member, two observers were registered
\* after it was built, the second span's set has three, and OnSetTag on
\* the first set reached its one member only
C10_Witness ==
    \E t \in Threads :
        /\ Len(heap) = 3
        /\ Len(Members(2)) = 1
        /\ Len(Members(3)) = 3
        /\ frame[t].call = "OnSetTag"
        /\ frame[t].recv = 2
        /\ frame[t].pc = "returned"
        /\ Len(frame[t].delivered) = 1

\* the number of times x occurs in seq
Occurrences(seq, x) == Cardinality({j \in 1..Len(seq) : seq[j] = x})

\* the name the span observers of registered observer c carry
MadeBy(c) == IF c = "oldObserver(L)" THEN "L" ELSE c

\* C11: o.observers is exactly the sequence of the observers append was
\* called with, in call order, repeats included; a step changes it only by
\* adding one observer at its end; and an OnStartSpan that returns has asked
\* an observer registered r times r times and, when the observer is
\* interested, put r of its span observers in the set (none otherwise).
C11_AppendOnlyNoDedup ==
    /\ [](/\ observers = appended
          /\ \A t \in Threads :
                ReturnedStart(t) =>
                    LET f == frame[t]
                        m == Members(f.ret)
                    IN  \A c \in {f.before[j] : j \in 1..Len(f.before)} :
                            LET r == Occurrences(f.before, c)
                                asked == {j \in 1..Len(f.queried) :
                                             f.queried[j].obs = c}
                                mine == {j \in 1..Len(m) :
                                            m[j].by = MadeBy(c)}
                            IN  /\ Cardinality(asked) = r
                                /\ Cardinality(mine) =
                                      IF \E j \in asked : f.queried[j].ok
                                      THEN r ELSE 0)
    /\ [][observers' # observers =>
              /\ Len(observers') = Len(observers) + 1
              /\ SubSeq(observers', 1, Len(observers)) = observers]_vars

\* X registered twice around L, all interested: X asked twice, two of the
\* three members are X's
C11_Witness ==
    \E t \in Threads :
        /\ ReturnedStart(t)
        /\ observers = <<"X", "oldObserver(L)", "X">>
        /\ appended = observers
        /\ frame[t].before = observers
        /\ Len(Members(frame[t].ret)) = 3
        /\ Members(frame[t].ret)[1].by = "X"
        /\ Members(frame[t].ret)[3].by = "X"

\* C12: OnStartSpan asks the observers registered as it began one by one
\* in registration order, each once, whatever the earlier ones answered,
\* each with the span, operation name and options of the call (the answers
\* show it: a span observer is made for the call's span, X is interested
\* exactly in "foo", the wrapped old observer gets the call's name and
\* options); when it returns all of them were asked.  A method of a set
\* asks no observer.
C12_EveryObserverAskedOnce ==
    /\ \A t \in Threads :
          StartFrame(t) =>
              LET f == frame[t]
              IN  /\ Len(f.queried) <= Len(f.before)
                  /\ f.pc = "loop" => Len(f.queried) = f.i - 1
                  /\ f.pc = "returned" => Len(f.queried) = Len(f.before)
                  /\ \A j \in 1..Len(f.queried) :
                        LET q == f.queried[j]
                        IN  /\ q.obs = f.before[j]
                            /\ q.sp = f.sp
                            /\ q.operationName = f.operationName
                            /\ q.options = f.options
                            /\ q.spanObs # NilSpanObserver =>
                                  q.spanObs.sp = f.sp /\ q.spanObs.at = j
                            /\ q.obs = "X" =>
                                  (q.ok <=> f.operationName = "foo")
                  /\ \A k \in 1..Len(f.hooks) :
                        /\ f.hooks[k].operationName = f.operationName
                        /\ f.hooks[k].options = f.options
                        /\ f.before[f.hooks[k].at] = "oldObserver(L)"
    /\ \A t \in Threads :
          NotifyFrame(t) => frame[t].queried = <<>> /\ frame[t].hooks = <<>>

\* interested, not interested, interested: all three were asked
C12_Witness ==
    \E t \in Threads :
        /\ ReturnedStart(t)
        /\ frame[t].options = "so2"
        /\ Len(frame[t].queried) = 3
        /\ frame[t].queried[1].ok
        /\ ~frame[t].queried[2].ok
        /\ frame[t].queried[3].ok
        /\ frame[t].queried[3].obs = "oldObserver(L)"

\* what the observers obsSeq answer, one by one, to a start of span sp
AnswersAlone(obsSeq, sp, operationName, options) ==
    [j \in 1..Len(obsSeq) |->
        ContribObserver_OnStartSpan(obsSeq[j], sp, operationName, options, j)]

\* the members of the set a start of span sp gets when it runs alone: the
\* span observers of the interested observers, in registration order
MembersAlone(obsSeq, sp, operationName, options) ==
    LET ans == AnswersAlone(obsSeq, sp, operationName, options)
        idx == SelectSeq([j \in 1..Len(obsSeq) |-> j], LAMBDA j : ans[j].ok)
    IN  [k \in 1..Len(idx) |-> ans[idx[k]].spanObs]

\* C13: with registration over and two goroutines working on spans of
\* their own, no step writes o.observers, the shared no-op object or any
\* set that exists, and a step changes the frame of one goroutine only;
\* each start returns the members it would return alone (the no-op object
\* exactly when there are none), each method delivers what it would deliver
\* alone, and two starts that collected something return different
\* objects with no span observer in common.
C13_ConcurrentSpansIndependent ==
    /\ [](/\ \A t \in ConcThreads :
                ReturnedStart(t) =>
                    LET f == frame[t]
                        alone == MembersAlone(observers, f.sp,
                                              f.operationName, f.options)
                    IN  /\ Members(f.ret) = alone
                        /\ (f.ret = noopCompositeSpanObserver) <=>
                              (alone = <<>>)
          /\ \A t \in ConcThreads :
                (NotifyFrame(t) /\ frame[t].pc # "panicked") =>
                    LET f == frame[t]
                    IN  f.delivered =
                            Expected(f.recv, f.call, f.args,
                                     IF f.pc = "returned"
                                     THEN Len(Members(f.recv))
                                     ELSE f.i - 1)
          /\ \A t, u \in ConcThreads :
                (/\ t # u
                 /\ ReturnedStart(t) /\ ReturnedStart(u)
                 /\ frame[t].ret # noopCompositeSpanObserver
                 /\ frame[u].ret # noopCompositeSpanObserver) =>
                    /\ frame[t].ret # frame[u].ret
                    /\ \A j \in 1..Len(Members(frame[t].ret)),
                          k \in 1..Len(Members(frame[u].ret)) :
                            Members(frame[t].ret)[j] #
                                Members(frame[u].ret)[k]
          /\ \A a, b \in DOMAIN heap :
                \A j \in 1..Len(Members(a)), k \in 1..Len(Members(b)) :
                    (Members(a)[j].sp = Members(b)[k].sp) <=> (a = b))
    /\ [][/\ observers' = observers
          /\ \A a \in DOMAIN heap : heap'[a] = heap[a]
          /\ \A t, u \in ConcThreads :
                (frame'[t] # frame[t] /\ frame'[u] # frame[u]) => t = u]_vars

\* the goroutine that started span 1 returned after the one that started
\* span 2: both have sets of their own
C13_Witness ==
    /\ DOMAIN frame = ConcThreads
    /\ ReturnedStart("t1") /\ ReturnedStart("t2")
    /\ frame["t1"].sp = 1 /\ frame["t1"].ret = 3
    /\ frame["t2"].sp = 2 /\ frame["t2"].ret = 2
    /\ Len(Members(3)) = 2
    /\ Len(Members(2)) = 1

\* a sequence of recorded calls, reduced to method and arguments
MethodsAndArgs(seq) ==
    [k \in 1..Len(seq) |-> [method |-> seq[k].method, args |-> seq[k].args]]

\* the method calls made so far on the set at address a
CallsOn(a) ==
    MethodsAndArgs(SelectSeq(trace.calls, LAMBDA c : c.recv = a))

\* the calls span observer h received so far
ReceivedBy(h) ==
    MethodsAndArgs(SelectSeq(trace.received, LAMBDA d : d.to = h))

\* whether a method of the set at address a is running and has not yet
\* reached member j
Pending(a, j) ==
    \E t \in Threads :
        /\ NotifyFrame(t) /\ Running(t)
        /\ frame[t].recv = a
        /\ frame[t].i <= j

\* C14: where no span observer panics, each member of a set has received
\* exactly the method calls made on the set, in the order made and with
\* their arguments, repeated calls and calls after OnFinish included (less
\* the running call while it has not reached the member); nothing else
\* was received by anyone.
C14_MembersReceiveEveryCall ==
    trace.on =>
        /\ \A a \in DOMAIN heap :
              \A j \in 1..Len(Members(a)) :
                  ReceivedBy(Members(a)[j]) =
                      IF Pending(a, j)
                      THEN SubSeq(CallsOn(a), 1, Len(CallsOn(a)) - 1)
                      ELSE CallsOn(a)
        /\ \A k \in 1..Len(trace.received) :
              /\ trace.received[k].out = "return"
              /\ \E a \in DOMAIN heap :
                    \E j \in 1..Len(Members(a)) :
                        Members(a)[j] = trace.received[k].to

\* OnFinish, then OnSetTag twice with the same arguments, all on the set
\* of span 1: each of its two members received the three calls
C14_Witness ==
    /\ trace.on
    /\ Len(heap) >= 2
    /\ Len(Members(2)) = 2
    /\ CallsOn(2) = << [method |-> "OnFinish", args |-> <<"fo1">>],
                       [method |-> "OnSetTag", args |-> <<"k", "v">>],
                       [method |-> "OnSetTag", args |-> <<"k", "v">>] >>
    /\ ReceivedBy(Members(2)[1]) = CallsOn(2)
    /\ ReceivedBy(Members(2)[2]) = CallsOn(2)
    /\ Len(trace.received) = 6

C16_QueriesTheObserversAtEntry ==
    /\ [](\A t \in Threads :
             StartFrame(t) =>
                 LET f == frame[t]
                 IN  /\ Len(f.before) <= Len(observers)
                     /\ SubSeq(observers, 1, Len(f.before)) = f.before
                     /\ Len(f.queried) <= Len(f.before)
                     /\ \A j \in 1..Len(f.queried) :
                           f.queried[j].obs = f.before[j]
                     /\ f.pc = "returned" =>
                           /\ Len(f.queried) = Len(f.before)
                           /\ \A k \in 1..Len(Members(f.ret)) :
                                 Members(f.ret)[k].at \in 1..Len(f.before))
    /\ [][\A t \in Threads :
             /\ (started' # started /\ frame'[t] # frame[t]) =>
                   /\ StartFrame(t)'
                   /\ frame'[t].before = observers
                   /\ frame'[t].rng = observers
             /\ (StartFrame(t) /\ StartFrame(t)'
                 /\ frame'[t].sp = frame[t].sp) =>
                   frame'[t].before = frame[t].before]_vars

\* the second span's call asked R and the X registered before it began,
\* and not the X that R appended during the call
C16_Witness ==
    \E t \in Threads :
        /\ ReturnedStart(t)
        /\ frame[t].sp = 2
        /\ frame[t].before = <<"R", "X">>
        /\ observers = <<"R", "X", "X">>
        /\ Len(frame[t].queried) = 2
        /\ frame[t].queried[2].obs = "X"

=============================================================================
